---- MODULE Spec2Model ----
(***************************************************************************)
(* A model of the import combiner of src/src/lib.rs: the trie of           *)
(* ImportNode built by ImportCombiner::add_import and the declaration list *)
(* that ImportCombiner::get_import_list derives from it.                   *)
(*                                                                         *)
(* Strings are modelled by integers whose order is the lexicographic       *)
(* order of the strings they stand for (Vec::sort and BTreeMap iteration   *)
(* only compare them).  An Option<String> is a sequence of length 0 or 1   *)
(* (None is <<>>, Some(x) is <<x>>), an Item is the pair <<name, alias>>.  *)
(* The recursive ImportNode is kept flat: a trie is a function from the    *)
(* paths of its nodes (a prefix-closed set holding the root path <<>>) to  *)
(* the nodes' own fields; the children map of the node at path p is the    *)
(* set of the paths p \o <<c>> of the domain, iterated by ascending c as   *)
(* the BTreeMap does.                                                      *)
(***************************************************************************)
EXTENDS Integers, Sequences, FiniteSets

\* ------------------------------------------------------------- bounds
\* The identifiers 1..NumNames are used as path segments and as aliases.
NumNames == 2
\* The longest path of a declaration handed to add_import.
MaxPathLen == 1
\* The bindings a trie built from declarations over Paths may hold: a
\* declaration is handed to add_import while the bindings of the trie and
\* its own (1 for a Simple or a Glob, the number of items for a List) stay
\* within MaxItems.
MaxItems == 4
\* The longest list of declarations drawn from TestDecls.
MaxInputs == 3

\* ---------------------------------------------------------- constants
\* The string "self" (lib.rs:146, 182).  It sorts after a..e and before
\* x, y, z, as the string does.
SelfName == 19
CONFIG_MIN_IMPORT_ITEM_LIST_LENGTH == 3

\* The identifiers of the tests and of the scenarios of the specification.
N == [a |-> 1, b |-> 2, c |-> 3, d |-> 4, dd |-> 5, e |-> 6,
      x |-> 24, y |-> 25, z |-> 26]

Names == 1..NumNames
Segs == Names \cup {SelfName}
None == <<>>
Some(x) == <<x>>

\* ------------------------------------------------------- declarations
Item(name, alias) == <<name, alias>>

ViewPathSimple(p, rename) ==
    [kind |-> "Simple", path |-> p, rename |-> rename, items |-> <<>>]
ViewPathGlob(p) ==
    [kind |-> "Glob", path |-> p, rename |-> None, items |-> <<>>]
ViewPathList(p, items) ==
    [kind |-> "List", path |-> p, rename |-> None, items |-> items]

\* ---------------------------------------------------------- ImportNode
ImportNode_new == [has_self |-> FALSE, has_glob |-> FALSE, renames |-> <<>>]
\* (self_or_rename_with_self sets has_self for an alias too.)
self_or_rename_with_self(rename) ==
    [has_self |-> TRUE, has_glob |-> FALSE, renames |-> rename]
self_or_rename(rename) ==
    [has_self |-> rename = None, has_glob |-> FALSE, renames |-> rename]
just_glob == [has_self |-> FALSE, has_glob |-> TRUE, renames |-> <<>>]

\* A node without children, as a trie of its own.
Leaf(node) == [q \in {<<>>} |-> node]

contains(s, x) == \E i \in 1..Len(s) : s[i] = x

\* (push_all is push_new without the contains test.)
RECURSIVE push_all(_, _)
push_all(renames, rs) ==
    IF rs = <<>> THEN renames
    ELSE push_all(Append(renames, Head(rs)), Tail(rs))
\* for r in &b.renames { if !self.renames.contains(r) { push } }
RECURSIVE push_new(_, _)
push_new(renames, rs) ==
    IF rs = <<>> THEN renames
    ELSE push_new(IF contains(renames, Head(rs)) THEN renames
                  ELSE Append(renames, Head(rs)), Tail(rs))

\* Vec::sort: the ascending arrangement of the elements, by insertion.
RECURSIVE insert_sorted(_, _)
insert_sorted(s, x) ==
    IF s = <<>> THEN <<x>>
    ELSE IF x < Head(s) THEN <<x>> \o s
    ELSE <<Head(s)>> \o insert_sorted(Tail(s), x)
RECURSIVE sort_from(_, _)
sort_from(done, s) ==
    IF s = <<>> THEN done ELSE sort_from(insert_sorted(done, Head(s)), Tail(s))
\* (unsorted is combine_with without its renames.sort().)
unsorted(s) == s
sort(s) == sort_from(<<>>, s)

\* The fields of one node after combine_with (lines 97-104).
combine_fields(node, b) ==
    [has_self |-> node.has_self \/ b.has_self,
     has_glob |-> node.has_glob \/ b.has_glob,
     renames |-> sort(push_new(node.renames, b.renames))]

IsPrefix(p, q) == Len(p) <= Len(q) /\ SubSeq(q, 1, Len(p)) = p
Prefixes(p) == {SubSeq(p, 1, k) : k \in 0..Len(p)}
Suffix(q, n) == SubSeq(q, n + 1, Len(q))

\* combine_with applied to the node at path `at` of trie t, b a trie: the
\* fields are combined node by node, and a subtree of b that t lacks is
\* inserted as it is (lines 105-111).
combine_with(t, at, b) ==
    [q \in DOMAIN t \cup {at \o k : k \in DOMAIN b} |->
        IF IsPrefix(at, q) /\ Suffix(q, Len(at)) \in DOMAIN b
        THEN IF q \in DOMAIN t
             THEN combine_fields(t[q], b[Suffix(q, Len(at))])
             ELSE b[Suffix(q, Len(at))]
        ELSE t[q]]

\* ------------------------------------------------------ ImportCombiner
new == Leaf(ImportNode_new)

\* (add_node_below_root leaves the root node as it is.)
add_node_below_root(t, path, node) ==
    IF path = <<>> THEN t
    ELSE combine_with([q \in DOMAIN t \cup Prefixes(path) |->
                          IF q \in DOMAIN t THEN t[q] ELSE ImportNode_new],
                      path, Leaf(node))

\* add_node_internal creates the missing nodes of the path, each an
\* ImportNode::new(); the node is then combined into the one reached.
add_node(t, path, node) ==
    combine_with([q \in DOMAIN t \cup Prefixes(path) |->
                     IF q \in DOMAIN t THEN t[q] ELSE ImportNode_new],
                 path, Leaf(node))

\* (add_items_self_as_child takes an item named `self` for a child.)
RECURSIVE add_items_self_as_child(_, _, _)
add_items_self_as_child(t, p, items) ==
    IF items = <<>> THEN t
    ELSE add_items_self_as_child(
             add_node(t, Append(p, Head(items)[1]), self_or_rename(Head(items)[2])),
             p, Tail(items))

RECURSIVE add_items(_, _, _)
add_items(t, p, items) ==
    IF items = <<>> THEN t
    ELSE LET i == Head(items)
         IN add_items(IF i[1] = SelfName
                      THEN add_node(t, p, self_or_rename(i[2]))
                      ELSE add_node(t, Append(p, i[1]), self_or_rename(i[2])),
                      p, Tail(items))

add_import(t, vp) ==
    CASE vp.kind = "Glob" -> add_node(t, vp.path, just_glob)
      [] vp.kind = "Simple" -> add_node(t, vp.path, self_or_rename(vp.rename))
      [] vp.kind = "List" -> add_items(t, vp.path, vp.items)

RECURSIVE add_imports(_, _)
add_imports(t, vps) ==
    IF vps = <<>> THEN t ELSE add_imports(add_import(t, Head(vps)), Tail(vps))

\* (descending iterates the keys from the greatest down.)
RECURSIVE descending(_)
descending(S) ==
    IF S = {} THEN <<>>
    ELSE LET m == CHOOSE v \in S : \A w \in S : w <= v
         IN <<m>> \o descending(S \ {m})

\* The keys of node.children, in the order the BTreeMap iterates them.
RECURSIVE ascending(_)
ascending(S) ==
    IF S = {} THEN <<>>
    ELSE LET m == CHOOSE v \in S : \A w \in S : v <= w
         IN <<m>> \o ascending(S \ {m})
children(t, p) ==
    ascending({q[Len(q)] : q \in {r \in DOMAIN t : Len(r) = Len(p) + 1 /\ IsPrefix(p, r)}})

\* (child_items_under_glob keeps a bare child under a glob.)
RECURSIVE child_items_under_glob(_, _, _)
child_items_under_glob(t, p, kids) ==
    IF kids = <<>> THEN <<>>
    ELSE (IF t[Append(p, Head(kids))].has_self
          THEN <<Item(Head(kids), None)>> ELSE <<>>)
         \o [i \in 1..Len(t[Append(p, Head(kids))].renames) |->
                Item(Head(kids), Some(t[Append(p, Head(kids))].renames[i]))]
         \o child_items_under_glob(t, p, Tail(kids))

\* The items the children of the node at p add to use_list (lines 187-194).
RECURSIVE child_items(_, _, _)
child_items(t, p, kids) ==
    IF kids = <<>> THEN <<>>
    ELSE LET child_name == Head(kids)
             child_node == t[Append(p, child_name)]
         IN (IF child_node.has_self /\ ~t[p].has_glob
             THEN <<Item(child_name, None)>> ELSE <<>>)
            \o [i \in 1..Len(child_node.renames) |->
                   Item(child_name, Some(child_node.renames[i]))]
            \o child_items(t, p, Tail(kids))

\* use_list of get_imports_for_node (lines 180-194).
use_list(t, p, self_already_consumed, renames_already_consumed) ==
    (IF t[p].has_self /\ ~self_already_consumed
     THEN <<Item(SelfName, None)>> ELSE <<>>)
    \o (IF ~renames_already_consumed
        THEN [i \in 1..Len(t[p].renames) |-> Item(SelfName, Some(t[p].renames[i]))]
        ELSE <<>>)
    \o child_items(t, p, children(t, p))

\* (will_use_list_above asks for more than the minimum, will_use_list_pair
\* for two items.)
will_use_list_above(items) == Len(items) > CONFIG_MIN_IMPORT_ITEM_LIST_LENGTH
will_use_list_pair(items) == Len(items) >= 2
\* use_list.len() >= CONFIG_MIN_IMPORT_ITEM_LIST_LENGTH (line 196)
will_use_list(items) == Len(items) >= CONFIG_MIN_IMPORT_ITEM_LIST_LENGTH

RECURSIVE get_imports_for_node(_, _, _, _)
RECURSIVE get_imports_for_children(_, _, _, _, _)
get_imports_for_node(t, node_path, self_already_consumed, renames_already_consumed) ==
    LET node == t[node_path]
        need_self_declaration == node.has_self /\ ~self_already_consumed
        items == use_list(t, node_path, self_already_consumed, renames_already_consumed)
        here == IF will_use_list(items)
                THEN <<ViewPathList(node_path, items)>>
                ELSE (IF need_self_declaration
                      THEN <<ViewPathSimple(node_path, None)>> ELSE <<>>)
                     \o (IF ~renames_already_consumed
                         THEN [i \in 1..Len(node.renames) |->
                                  ViewPathSimple(node_path, Some(node.renames[i]))]
                         ELSE <<>>)
        glob == IF node.has_glob THEN <<ViewPathGlob(node_path)>> ELSE <<>>
        consumed_child_selves == will_use_list(items) \/ node.has_glob
        consumed_child_renames == will_use_list(items)
    IN here \o glob
       \o get_imports_for_children(t, node_path, children(t, node_path),
                                   consumed_child_selves, consumed_child_renames)
\* (get_imports_for_children_unconsumed passes no consumption down.)
RECURSIVE get_imports_for_children_unconsumed(_, _, _, _, _)
get_imports_for_children_unconsumed(t, node_path, kids, selves, renames) ==
    IF kids = <<>> THEN <<>>
    ELSE get_imports_for_node(t, Append(node_path, Head(kids)), FALSE, FALSE)
         \o get_imports_for_children_unconsumed(t, node_path, Tail(kids),
                                                selves, renames)
get_imports_for_children(t, node_path, kids, consumed_child_selves, consumed_child_renames) ==
    IF kids = <<>> THEN <<>>
    ELSE get_imports_for_node(t, Append(node_path, Head(kids)),
                              consumed_child_selves, consumed_child_renames)
         \o get_imports_for_children(t, node_path, Tail(kids),
                                     consumed_child_selves, consumed_child_renames)

get_import_list(t) == get_imports_for_node(t, <<>>, FALSE, FALSE)

combine_imports(vps) == get_import_list(add_imports(new, vps))

\* ------------------------------------------------------------- inputs
Options == {None} \cup {Some(x) : x \in Names}
Paths == UNION {[1..n -> Segs] : n \in 0..MaxPathLen}
Items == {Item(n, r) : n \in Segs, r \in Options}

\* The declarations add_import is handed: every Simple and Glob over Paths,
\* and the Lists at a path of Paths (their items drawn in AddAnyList).
Simples == {ViewPathSimple(p, r) : p \in Paths, r \in Options}
Globs == {ViewPathGlob(p) : p \in Paths}

\* The declarations of the tests (lines 275-385) and of the scenarios of
\* the specification.
ab == <<N.a, N.b>>
TestDecls ==
    {ViewPathSimple(<<N.a>>, None),
     ViewPathSimple(ab, None),
     ViewPathSimple(ab, Some(N.x)),
     ViewPathSimple(ab, Some(N.y)),
     ViewPathGlob(ab),
     ViewPathSimple(ab \o <<N.c>>, None),
     ViewPathSimple(ab \o <<N.c>>, Some(N.x)),
     ViewPathSimple(ab \o <<N.c>>, Some(N.z)),
     ViewPathSimple(ab \o <<N.d>>, Some(N.e)),
     ViewPathList(ab, <<Item(SelfName, None), Item(N.c, None), Item(N.d, None),
                        Item(N.d, Some(N.dd)), Item(N.e, None)>>)}

\* The bindings a declaration introduces: the full path and the local name
\* (the alias, or else the last segment of the path; the empty path has
\* none), with `explicit` set when the name was given as an alias.  A
\* wildcard has glob set.
LastSeg(p) == IF p = <<>> THEN <<>> ELSE <<p[Len(p)]>>
Binding(p, rename) ==
    [path |-> p, glob |-> FALSE, explicit |-> rename # None,
     name |-> IF rename = None THEN LastSeg(p) ELSE rename]
Wildcard(p) == [path |-> p, glob |-> TRUE, explicit |-> FALSE, name |-> <<>>]
Decode(vp) ==
    CASE vp.kind = "Simple" -> {Binding(vp.path, vp.rename)}
      [] vp.kind = "Glob" -> {Wildcard(vp.path)}
      [] vp.kind = "List" ->
            {IF vp.items[i][1] = SelfName
             THEN Binding(vp.path, vp.items[i][2])
             ELSE Binding(Append(vp.path, vp.items[i][1]), vp.items[i][2])
               : i \in 1..Len(vp.items)}
DecodeAll(vps) == UNION {Decode(vps[i]) : i \in 1..Len(vps)}

\* The bindings a trie holds.
RECURSIVE Sum(_, _)
Sum(f, S) ==
    IF S = {} THEN 0
    ELSE LET v == CHOOSE w \in S : TRUE IN f[v] + Sum(f, S \ {v})
Count(t) ==
    Sum([q \in DOMAIN t |-> (IF t[q].has_self THEN 1 ELSE 0)
                             + (IF t[q].has_glob THEN 1 ELSE 0)
                             + Len(t[q].renames)], DOMAIN t)

HasSelfSegment(vp) == \E i \in 1..Len(vp.path) : vp.path[i] = SelfName

\* -------------------------------------------------------------- state
VARIABLES
    vps,           \* the declarations of a run over TestDecls (or none)
    pending,       \* the positions of vps not yet handed to add_import
    root,          \* the trie of the combiner
    import_list,   \* what get_import_list returned
    recombined,    \* what combine_imports returns for import_list
    pc,            \* "add_imports", "get_import_list", "done"
    bindings,      \* the bindings of the declarations handed in so far
    self_segment   \* one of them has a path segment `self`

vars == <<vps, pending, root, import_list, recombined, pc, bindings, self_segment>>

\* ImportCombiner::new(), and the declarations of the run: a list over
\* TestDecls, handed in in any order, or (vps empty) any declarations over
\* Paths, handed in one by one.
Init ==
    /\ vps \in UNION {[1..n -> TestDecls] : n \in 0..MaxInputs}
    /\ pending = 1..Len(vps)
    /\ root = new
    /\ import_list = <<>>
    /\ recombined = <<>>
    /\ pc = "add_imports"
    /\ bindings = {}
    /\ self_segment = FALSE

\* ImportCombiner::add_import(vp)
AddImport(vp) ==
    /\ pc = "add_imports"
    /\ root' = add_import(root, vp)
    /\ bindings' = bindings \cup Decode(vp)
    /\ self_segment' = (self_segment \/ HasSelfSegment(vp))
    /\ UNCHANGED <<vps, import_list, recombined, pc>>

\* add_import of any declaration over Paths that keeps the bindings of the
\* trie within MaxItems
AddAny ==
    /\ vps = <<>>
    /\ Count(root) < MaxItems
    /\ \E vp \in Simples \cup Globs : AddImport(vp)
    /\ UNCHANGED pending
AddAnyList ==
    /\ vps = <<>>
    /\ Count(root) < MaxItems
    /\ \E p \in Paths : \E n \in 0..(MaxItems - Count(root)) :
           \E is \in [1..n -> Items] : AddImport(ViewPathList(p, is))
    /\ UNCHANGED pending

\* add_imports over vps, one declaration at a time, in any order
AddPending ==
    \E i \in pending : AddImport(vps[i]) /\ pending' = pending \ {i}

\* ImportCombiner::get_import_list(), once add_imports is over
GetImportList ==
    /\ pc = "add_imports"
    /\ pending = {}
    /\ import_list' = get_import_list(root)
    /\ pc' = "get_import_list"
    /\ UNCHANGED <<vps, pending, root, recombined, bindings, self_segment>>

\* combine_imports applied to the list returned
Recombine ==
    /\ pc = "get_import_list"
    /\ recombined' = combine_imports(import_list)
    /\ pc' = "done"
    /\ UNCHANGED <<vps, pending, root, import_list, bindings, self_segment>>

Next == AddAny \/ AddAnyList \/ AddPending \/ GetImportList \/ Recombine

Spec == Init /\ [][Next]_vars

\* ------------------------------------------------------ the properties
\* get_import_list has returned: import_list is the list of the trie root.
Listed == pc # "add_imports"
Positions == 1..Len(import_list)
Has(vp) == \E i \in Positions : import_list[i] = vp
ListsAt(p) == {i \in Positions : import_list[i].kind = "List" /\ import_list[i].path = p}
Parent(p) == SubSeq(p, 1, Len(p) - 1)
IsChild(p, q) == Len(q) = Len(p) + 1 /\ IsPrefix(p, q)
ChildPaths(p) == {q \in DOMAIN root : IsChild(p, q)}

\* What the parent's emission consumed of the node at p, read off the
\* list returned: its self by a List or a Glob at the parent's path, its
\* renames by a List there.
SelfConsumed(p) ==
    /\ p # <<>>
    /\ \E i \in Positions : /\ import_list[i].path = Parent(p)
                            /\ import_list[i].kind \in {"List", "Glob"}
RenamesConsumed(p) == p # <<>> /\ ListsAt(Parent(p)) # {}

\* The candidate bundle of the node at p, each entry an item with the path
\* of the binding it stands for.
Entry(name, alias, q) == [item |-> Item(name, alias), path |-> q]
RECURSIVE PathsAscending(_)
PathsAscending(S) ==
    IF S = {} THEN <<>>
    ELSE LET m == CHOOSE q \in S : \A r \in S : q[Len(q)] <= r[Len(r)]
         IN <<m>> \o PathsAscending(S \ {m})
RECURSIVE ChildEntries(_, _)
ChildEntries(p, qs) ==
    IF qs = <<>> THEN <<>>
    ELSE LET q == Head(qs)
         IN (IF root[q].has_self /\ ~root[p].has_glob
             THEN <<Entry(q[Len(q)], None, q)>> ELSE <<>>)
            \o [k \in 1..Len(root[q].renames) |->
                   Entry(q[Len(q)], Some(root[q].renames[k]), q)]
            \o ChildEntries(p, Tail(qs))
Bundle(p) ==
    (IF root[p].has_self /\ ~SelfConsumed(p)
     THEN <<Entry(SelfName, None, p)>> ELSE <<>>)
    \o (IF RenamesConsumed(p) THEN <<>>
        ELSE [k \in 1..Len(root[p].renames) |->
                 Entry(SelfName, Some(root[p].renames[k]), p)])
    \o ChildEntries(p, PathsAscending(ChildPaths(p)))
BundleItems(p) == [k \in 1..Len(Bundle(p)) |-> Bundle(p)[k].item]
Occurrences(s, v) == Cardinality({k \in 1..Len(s) : s[k] = v})

\* The bindings as the pairs (full path, local name) alone.
Pair(b) == [path |-> b.path, glob |-> b.glob, name |-> b.name]
Pairs(S) == {Pair(b) : b \in S}
PairWildcard(p) == [path |-> p, glob |-> TRUE, name |-> <<>>]

C2_OrderIndependent ==
    (vps # <<>> /\ pending = {}) =>
        /\ root = add_imports(new, vps)
        /\ Listed => import_list = combine_imports(vps)

\* C2's case: three declarations, two of them aliases of one path given in
\* descending order, all handed in and listed.
C2_Witness ==
    /\ Listed
    /\ Len(vps) = 3
    /\ \E i, j \in 1..3 :
          /\ i < j
          /\ vps[i].kind = "Simple" /\ vps[j].kind = "Simple"
          /\ vps[i].path = vps[j].path
          /\ vps[i].rename # None /\ vps[j].rename # None
          /\ vps[j].rename[1] < vps[i].rename[1]

\* No output declaration or List item binds a child of p without an alias.
NoBareChild(p) ==
    \A i \in Positions :
        LET vp == import_list[i]
        IN /\ ~(vp.kind = "Simple" /\ vp.rename = None /\ IsChild(p, vp.path))
           /\ (vp.kind = "List" /\ vp.path = p) =>
                 \A k \in 1..Len(vp.items) :
                     ~(vp.items[k][1] # SelfName /\ vp.items[k][2] = None)
\* The alias x of the child at q is an item `c as x` of a List at the
\* parent's path, or the declaration Simple(q, Some(x)).
AliasAtParentOrSimple(q, x) ==
    \/ Has(ViewPathSimple(q, Some(x)))
    \/ \E i \in ListsAt(Parent(q)) :
          contains(import_list[i].items, Item(q[Len(q)], Some(x)))
\* The alias x of the node at q is an item `self as x` of a List at q.
AliasInOwnList(q, x) ==
    \E i \in ListsAt(q) : contains(import_list[i].items, Item(SelfName, Some(x)))

\* C3 as stated: under a node with has_glob no child is bound un-aliased,
\* and every alias of a child is in the output as `c as x` in a List at the
\* node's path or as Simple(P+[c], Some(x)).
C3_AliasKeptAtParentOrSimple ==
    Listed =>
        \A p \in DOMAIN root : root[p].has_glob =>
            /\ NoBareChild(p)
            /\ \A q \in ChildPaths(p) : \A k \in 1..Len(root[q].renames) :
                   AliasAtParentOrSimple(q, root[q].renames[k])

\* C3 as amended: under a node with has_glob no child is bound un-aliased,
\* and every alias of a child is in the output as `c as x` in a List at the
\* node's path, as Simple(P+[c], Some(x)), or as `self as x` in a List at
\* the child's own path P+[c].
C3_GlobAbsorption ==
    Listed =>
        \A p \in DOMAIN root : root[p].has_glob =>
            /\ NoBareChild(p)
            /\ \A q \in ChildPaths(p) : \A k \in 1..Len(root[q].renames) :
                   \/ AliasAtParentOrSimple(q, root[q].renames[k])
                   \/ AliasInOwnList(q, root[q].renames[k])

\* C3's case: a node with has_glob has a child with has_self and a child
\* with an alias, and a List was emitted at the node's path.
C3_Witness ==
    /\ Listed
    /\ \E p \in DOMAIN root :
          /\ root[p].has_glob
          /\ ListsAt(p) # {}
          /\ \E q \in ChildPaths(p) : root[q].has_self
          /\ \E q \in ChildPaths(p) : root[q].renames # <<>>

\* The binding of a bundle entry is a Simple declaration of its own.
EntryIsSimple(en) == Has(ViewPathSimple(en.path, en.item[2]))
\* The binding of a bundle entry is a `self` item of the List at its path.
EntryInOwnList(en) ==
    \E i \in ListsAt(en.path) :
        contains(import_list[i].items, Item(SelfName, en.item[2]))

\* C4 as stated: a bundle of 3 or more items is one List at the node's
\* path holding exactly the bundle; with a smaller bundle there is no List
\* at the path and every binding of the bundle is a Simple declaration.
C4_SmallBundleAllSimple ==
    Listed =>
        \A p \in DOMAIN root :
            IF Len(Bundle(p)) >= 3
            THEN /\ Cardinality(ListsAt(p)) = 1
                 /\ \A i \in ListsAt(p) : import_list[i].items = BundleItems(p)
            ELSE /\ ListsAt(p) = {}
                 /\ \A k \in 1..Len(Bundle(p)) : EntryIsSimple(Bundle(p)[k])

\* C4 as amended: a bundle of 3 or more items is one List at the node's
\* path holding exactly the bundle; with a smaller bundle there is no List
\* at the path, the node's own bindings are Simple declarations, and a
\* child's binding is a Simple declaration or a `self` item of the List
\* emitted at the child's own path.
C4_Threshold ==
    Listed =>
        \A p \in DOMAIN root :
            IF Len(Bundle(p)) >= 3
            THEN /\ Cardinality(ListsAt(p)) = 1
                 /\ \A i \in ListsAt(p) : import_list[i].items = BundleItems(p)
            ELSE /\ ListsAt(p) = {}
                 /\ \A k \in 1..Len(Bundle(p)) :
                       \/ EntryIsSimple(Bundle(p)[k])
                       \/ /\ Bundle(p)[k].path # p
                          /\ EntryInOwnList(Bundle(p)[k])

\* C4's case: a node has a bundle of exactly 2 items, its own self and a
\* child's alias, and both are Simple declarations and no List is at its
\* path.
C4_Witness ==
    /\ Listed
    /\ \E p \in DOMAIN root :
          /\ Len(Bundle(p)) = 2
          /\ Bundle(p)[1].path = p
          /\ Bundle(p)[2].path # p
          /\ ListsAt(p) = {}
          /\ \A k \in 1..2 : EntryIsSimple(Bundle(p)[k])

\* The scenario of C5: a::b::{self, c, d, d as dd, e} and a::b::*.
Scenario ==
    <<ViewPathList(ab, <<Item(SelfName, None), Item(N.c, None), Item(N.d, None),
                         Item(N.d, Some(N.dd)), Item(N.e, None)>>),
      ViewPathGlob(ab)>>

\* C5 as stated: the scenario returns [a::b::{self, d as dd}, a::b::*].
C5_ScenarioList ==
    (Listed /\ vps = Scenario) =>
        import_list = <<ViewPathList(ab, <<Item(SelfName, None),
                                           Item(N.d, Some(N.dd))>>),
                        ViewPathGlob(ab)>>

\* C5 as amended: the scenario returns [a::b, a::b::*, a::b::d as dd]: the
\* bundle {self, d as dd} has 2 items, below the threshold, so self and the
\* alias are Simple declarations, the alias emitted after the glob.
C5_Scenario ==
    (Listed /\ vps = Scenario) =>
        import_list = <<ViewPathSimple(ab, None), ViewPathGlob(ab),
                        ViewPathSimple(ab \o <<N.d>>, Some(N.dd))>>

\* C5's case: the scenario was combined.
C5_Witness == Listed /\ vps = Scenario

\* The order of the pre-order walk: a path before its extensions, siblings
\* by ascending segment; at one path the List or the bare Simple, then the
\* aliased Simples by ascending alias, then the Glob.
PathBefore(p, q) ==
    \/ Len(p) < Len(q) /\ IsPrefix(p, q)
    \/ \E k \in 1..Len(p) :
          /\ k <= Len(q)
          /\ SubSeq(p, 1, k - 1) = SubSeq(q, 1, k - 1)
          /\ p[k] < q[k]
Rank(vp) ==
    IF vp.kind = "Glob" THEN 2
    ELSE IF vp.kind = "Simple" /\ vp.rename # None THEN 1 ELSE 0
Before(u, v) ==
    \/ PathBefore(u.path, v.path)
    \/ /\ u.path = v.path
       /\ \/ Rank(u) < Rank(v)
          \/ Rank(u) = 1 /\ Rank(v) = 1 /\ u.rename[1] < v.rename[1]

\* C6: the output is the pre-order walk of the trie: every declaration is
\* at the path of a node, and of any two the earlier one comes first in
\* the order of the walk.
C6_EmissionOrder ==
    Listed =>
        /\ \A i \in Positions : import_list[i].path \in DOMAIN root
        /\ \A i, j \in Positions : i < j => Before(import_list[i], import_list[j])

\* C6's case: declarations at a path, its Glob, and the blocks of two
\* sibling subtrees, the first of them with a declaration below the
\* sibling's own path.
C6_Witness ==
    /\ Listed
    /\ \E i, j, k, l \in Positions :
          /\ i < j /\ j < k /\ k < l
          /\ import_list[i].path = import_list[j].path
          /\ import_list[j].kind = "Glob"
          /\ IsPrefix(import_list[i].path, import_list[k].path)
          /\ IsPrefix(import_list[i].path, import_list[l].path)
          /\ ~IsPrefix(import_list[k].path, import_list[l].path)
          /\ ~IsPrefix(import_list[l].path, import_list[k].path)

\* C7: a declaration over the empty path is merged into the root node, and
\* the root is emitted as any node is, at the empty path: a List of its
\* bundle when that has 3 or more items, else Simple([], None) for has_self
\* and Simple([], Some(x)) for every rename x; Glob([]) for has_glob; no
\* binding of the empty path is dropped.
C7_RootEmitted ==
    Listed =>
        /\ \A b \in bindings : b.path = <<>> =>
              /\ b.glob => root[<<>>].has_glob
              /\ (~b.glob /\ ~b.explicit) => root[<<>>].has_self
              /\ b.explicit => contains(root[<<>>].renames, b.name[1])
              /\ b \in DecodeAll(import_list)
        /\ IF Len(Bundle(<<>>)) >= 3
           THEN /\ import_list[1] = ViewPathList(<<>>, BundleItems(<<>>))
                /\ ListsAt(<<>>) = {1}
           ELSE /\ ListsAt(<<>>) = {}
                /\ root[<<>>].has_self <=> Has(ViewPathSimple(<<>>, None))
                /\ \A x \in Names :
                      contains(root[<<>>].renames, x)
                          <=> Has(ViewPathSimple(<<>>, Some(x)))
        /\ root[<<>>].has_glob <=> Has(ViewPathGlob(<<>>))

\* C7's case: declarations over the empty path gave the root its self, an
\* alias and its glob, and they were emitted at the empty path.
C7_Witness ==
    /\ Listed
    /\ root[<<>>].has_self /\ root[<<>>].has_glob /\ root[<<>>].renames # <<>>
    /\ Has(ViewPathSimple(<<>>, None))
    /\ Has(ViewPathGlob(<<>>))

NoSimpleAtOrBelow(p) ==
    \A j \in Positions :
        import_list[j].kind = "Simple" =>
            (import_list[j].path # p /\ ~IsChild(p, import_list[j].path))

\* C8 as stated: where a List is emitted at P there is no Simple for P nor
\* for a child of P, and every self, self-alias, child and child-alias
\* binding of the node is exactly one item of that List, or a bare child
\* absorbed by Glob(P).
C8_EveryBindingInThatList ==
    Listed =>
        \A i \in Positions : import_list[i].kind = "List" =>
            LET p == import_list[i].path
                items == import_list[i].items
            IN /\ NoSimpleAtOrBelow(p)
               /\ root[p].has_self => Occurrences(items, Item(SelfName, None)) = 1
               /\ \A k \in 1..Len(root[p].renames) :
                     Occurrences(items, Item(SelfName, Some(root[p].renames[k]))) = 1
               /\ \A q \in ChildPaths(p) :
                     /\ root[q].has_self =>
                           \/ root[p].has_glob
                           \/ Occurrences(items, Item(q[Len(q)], None)) = 1
                     /\ \A k \in 1..Len(root[q].renames) :
                           Occurrences(items, Item(q[Len(q)], Some(root[q].renames[k]))) = 1

\* C8 as amended: where a List is emitted at P there is no Simple for P nor
\* for a child of P, and the items of that List are, one item each, the
\* self and self-alias bindings of the node that the parent's List or Glob
\* has not consumed, and every child and child-alias binding but the bare
\* children absorbed by Glob(P).
C8_ListConsumption ==
    Listed =>
        \A i \in Positions : import_list[i].kind = "List" =>
            /\ NoSimpleAtOrBelow(import_list[i].path)
            /\ import_list[i].items = BundleItems(import_list[i].path)

\* C8's case: a List at P, P with has_self and a child with has_self that
\* has a child of its own, so that the walk recurses below the List.
C8_Witness ==
    /\ Listed
    /\ \E i \in Positions :
          /\ import_list[i].kind = "List"
          /\ root[import_list[i].path].has_self
          /\ \E q \in ChildPaths(import_list[i].path) :
                root[q].has_self /\ ChildPaths(q) # {}

\* C9: the renames of every node are strictly increasing, and every node
\* but the root is the child of a node of the trie.
C9_TrieInvariant ==
    \A p \in DOMAIN root :
        /\ \A i, j \in 1..Len(root[p].renames) :
              i < j => root[p].renames[i] < root[p].renames[j]
        /\ p # <<>> => Parent(p) \in DOMAIN root

\* C9's case: one alias was inserted twice at a path that holds a second
\* alias.
C9_Witness ==
    /\ pending = {}
    /\ \E i, j \in 1..Len(vps) :
          /\ i < j
          /\ vps[i] = vps[j]
          /\ vps[i].kind = "Simple"
          /\ vps[i].rename # None
          /\ Len(root[vps[i].path].renames) = 2

\* C10: when no input path has a segment `self`, combine_imports of the
\* list returned is that list.
C10_Idempotent ==
    (pc = "done" /\ ~self_segment) => recombined = import_list

\* C10's case: a glob absorbed a child, so the trie built from the list
\* returned differs from the first.
C10_Witness ==
    /\ pc = "done"
    /\ ~self_segment
    /\ \E p \in DOMAIN root : root[p].has_glob /\ \E q \in ChildPaths(p) : root[q].has_self
    /\ add_imports(new, import_list) # root

====
